---- MODULE Spec2Model ----
(***************************************************************************)
(* Video2Video backend: clip segmentation (services/clip_segmenter.py),    *)
(* the generation client (services/video_generator.py), the pipeline       *)
(* orchestrator with its job state (tasks/video_processor.py) and the      *)
(* session handlers of the HTTP API (api/routes.py).                       *)
(*                                                                         *)
(* Times are Python floats in the source.  They are modelled as exact      *)
(* rationals <<n, d>> (d > 0, lowest terms), so that a division or a       *)
(* midpoint is computed, not assumed.                                      *)
(***************************************************************************)
EXTENDS Integers, Sequences, FiniteSets, TLC

VARIABLES sg, gen, job, pl, api

vars == <<sg, gen, job, pl, api>>

(***************************************************************************)
(* Bounds of the model.                                                    *)
(***************************************************************************)
MaxDuration == 20
MaxScenes == 3
MaxVariants == 2
MaxClips == 3
MaxGenerations == 4

(***************************************************************************)
(* Exact rational arithmetic.                                              *)
(***************************************************************************)
Abs(x) == IF x < 0 THEN -x ELSE x

RECURSIVE GCD(_, _)
GCD(a, b) == IF b = 0 THEN a ELSE GCD(b, a % b)

RNorm(n, d) ==
    LET s == IF d < 0 THEN -1 ELSE 1
        g == GCD(Abs(n), Abs(d))
    IN  IF n = 0 THEN <<0, 1>> ELSE <<(s * n) \div g, (s * d) \div g>>

R(n) == <<n, 1>>
RAdd(a, b) == RNorm(a[1] * b[2] + b[1] * a[2], a[2] * b[2])
RSub(a, b) == RNorm(a[1] * b[2] - b[1] * a[2], a[2] * b[2])
RMul(a, b) == RNorm(a[1] * b[1], a[2] * b[2])
RDiv(a, b) == RNorm(a[1] * b[2], a[2] * b[1])
RLe(a, b) == a[1] * b[2] <= b[1] * a[2]
RLt(a, b) == a[1] * b[2] < b[1] * a[2]
RMin(a, b) == IF RLe(a, b) THEN a ELSE b
\* Python int(x): truncation toward zero
RInt(a) == IF a[1] >= 0 THEN a[1] \div a[2] ELSE -((-a[1]) \div a[2])

RECURSIVE RSum(_)
RSum(s) == IF s = <<>> THEN R(0) ELSE RAdd(Head(s), RSum(Tail(s)))

(***************************************************************************)
(* ClipSegmenter                                                           *)
(***************************************************************************)
KnownModels == {"defapi-sora-2", "defapi-veo-3.1", "veo-3.1-fast", "veo-3.1-quality", "sora-2"}

MODEL_LIMITS(model) ==
    IF model = "defapi-sora-2"
    THEN [max_duration |-> R(15), min_duration |-> R(5), default_duration |-> R(10)]
    ELSE [max_duration |-> R(8), min_duration |-> R(3), default_duration |-> R(8)]

get_model_limits(model) ==
    IF model \in KnownModels
    THEN MODEL_LIMITS(model)
    ELSE [max_duration |-> R(8), min_duration |-> R(3), default_duration |-> R(8)]

PACING_THRESHOLD == 3

PacingNote == "PACING: Speak faster"

\* variant: target_duration is not capped by the model limit
ClipSegmentUncapped(i, start, end, max_dur, pacing, note) ==
    [clip_index |-> i, start_time |-> start, end_time |-> end,
     duration |-> RSub(end, start),
     target_duration |-> RSub(end, start),
     pacing |-> pacing, pacing_note |-> note]

ClipSegment(i, start, end, max_dur, pacing, note) ==
    [clip_index |-> i, start_time |-> start, end_time |-> end,
     duration |-> RSub(end, start),
     target_duration |-> RMin(RSub(end, start), max_dur),
     pacing |-> pacing, pacing_note |-> note]

\* variant: a remainder equal to the threshold already adds a clip
SegmentPlanStrictThreshold(video_duration, max_dur) ==
    LET q == RInt(RDiv(video_duration, max_dur))
        min_clips == IF q > 1 THEN q ELSE 1
        remainder == RSub(video_duration, RMul(R(min_clips), max_dur))
    IN  IF RLe(remainder, R(0))
        THEN [num_clips |-> min_clips, pacing |-> "normal", pacing_note |-> ""]
        ELSE IF RLt(remainder, R(PACING_THRESHOLD))
        THEN [num_clips |-> min_clips, pacing |-> "slightly_faster",
              pacing_note |-> PacingNote]
        ELSE [num_clips |-> min_clips + 1, pacing |-> "normal", pacing_note |-> ""]

\* the decision of calculate_segments: clip count, pacing and pacing note
SegmentPlan(video_duration, max_dur) ==
    LET q == RInt(RDiv(video_duration, max_dur))
        min_clips == IF q > 1 THEN q ELSE 1
        remainder == RSub(video_duration, RMul(R(min_clips), max_dur))
    IN  IF RLe(remainder, R(0))
        THEN [num_clips |-> min_clips, pacing |-> "normal", pacing_note |-> ""]
        ELSE IF RLe(remainder, R(PACING_THRESHOLD))
        THEN [num_clips |-> min_clips, pacing |-> "slightly_faster",
              pacing_note |-> PacingNote]
        ELSE [num_clips |-> min_clips + 1, pacing |-> "normal", pacing_note |-> ""]

uniform_segments(video_duration, num_clips, max_dur, pacing, pacing_note) ==
    LET clip_duration == RDiv(video_duration, R(num_clips))
    IN  [i \in 1..num_clips |->
            [clip_index |-> i - 1,
             start_time |-> RMul(R(i - 1), clip_duration),
             end_time |-> RMul(R(i), clip_duration),
             duration |-> RSub(RMul(R(i), clip_duration), RMul(R(i - 1), clip_duration)),
             target_duration |-> RMin(clip_duration, max_dur),
             pacing |-> pacing,
             pacing_note |-> IF i = 1 THEN pacing_note ELSE ""]]

\* sorted(scene_boundaries): insertion sort
RECURSIVE Insert(_, _)
Insert(x, s) ==
    IF s = <<>> THEN <<x>>
    ELSE IF RLe(x, Head(s)) THEN <<x>> \o s
    ELSE <<Head(s)>> \o Insert(x, Tail(s))

RECURSIVE Sorted(_)
Sorted(s) == IF s = <<>> THEN <<>> ELSE Insert(Head(s), Sorted(Tail(s)))

\* variant: the last clip ends at the scene boundary, not at video_duration
RECURSIVE GreedyPassEndAtBoundary(_, _, _, _, _, _, _, _, _)
GreedyPassEndAtBoundary(i, boundaries, video_duration, num_clips, max_dur, pacing, pacing_note, segments, current_start) ==
    LET clips_created == Len(segments)
        boundary == boundaries[i]
        elapsed == RSub(boundary, current_start)
        target_clip_duration == RDiv(video_duration, R(num_clips))
        seg == ClipSegment(clips_created, current_start, boundary, max_dur, pacing,
                           IF clips_created = 0 THEN pacing_note ELSE "")
    IN  IF i > Len(boundaries) THEN segments
        ELSE IF \/ RLe(RMul(target_clip_duration, <<4, 5>>), elapsed)
                \/ clips_created = num_clips - 1
        THEN IF clips_created + 1 >= num_clips
             THEN Append(segments, seg)
             ELSE GreedyPassEndAtBoundary(i + 1, boundaries, video_duration, num_clips,
                                          max_dur, pacing, pacing_note,
                                          Append(segments, seg), boundary)
        ELSE GreedyPassEndAtBoundary(i + 1, boundaries, video_duration, num_clips,
                                     max_dur, pacing, pacing_note, segments, current_start)

\* the for loop of _align_to_scenes over boundaries[1:], from position i
RECURSIVE GreedyPass(_, _, _, _, _, _, _, _, _)
GreedyPass(i, boundaries, video_duration, num_clips, max_dur, pacing, pacing_note, segments, current_start) ==
    LET clips_created == Len(segments)
        boundary == boundaries[i]
        elapsed == RSub(boundary, current_start)
        target_clip_duration == RDiv(video_duration, R(num_clips))
        end == IF clips_created < num_clips - 1 THEN boundary ELSE video_duration
        seg == ClipSegment(clips_created, current_start, end, max_dur, pacing,
                           IF clips_created = 0 THEN pacing_note ELSE "")
    IN  IF i > Len(boundaries) THEN segments
        ELSE IF \/ RLe(RMul(target_clip_duration, <<4, 5>>), elapsed)
                \/ clips_created = num_clips - 1
        THEN IF clips_created + 1 >= num_clips
             THEN Append(segments, seg)
             ELSE GreedyPass(i + 1, boundaries, video_duration, num_clips, max_dur,
                             pacing, pacing_note, Append(segments, seg), end)
        ELSE GreedyPass(i + 1, boundaries, video_duration, num_clips, max_dur,
                        pacing, pacing_note, segments, current_start)

\* variant: the second half of a split clip inherits the pacing note
RECURSIVE BisectNoteOnBoth(_, _, _, _)
BisectNoteOnBoth(segments, num_clips, max_dur, pacing) ==
    IF Len(segments) >= num_clips THEN segments
    ELSE LET n == Len(segments)
             last == segments[n]
             mid == RDiv(RAdd(last.start_time, last.end_time), R(2))
             first == ClipSegment(last.clip_index, last.start_time, mid, max_dur,
                                  pacing, last.pacing_note)
             second == ClipSegment(n, mid, last.end_time, max_dur, pacing,
                                   last.pacing_note)
         IN  BisectNoteOnBoth(Append([segments EXCEPT ![n] = first], second),
                              num_clips, max_dur, pacing)

\* variant: an if instead of the while, the last clip is split at most once
BisectOnce(segments, num_clips, max_dur, pacing) ==
    IF Len(segments) >= num_clips THEN segments
    ELSE LET n == Len(segments)
             last == segments[n]
             mid == RDiv(RAdd(last.start_time, last.end_time), R(2))
             first == ClipSegment(last.clip_index, last.start_time, mid, max_dur,
                                  pacing, last.pacing_note)
             second == ClipSegment(n, mid, last.end_time, max_dur, pacing, "")
         IN  Append([segments EXCEPT ![n] = first], second)

\* the while loop of _align_to_scenes: split the last clip at its midpoint
RECURSIVE Bisect(_, _, _, _)
Bisect(segments, num_clips, max_dur, pacing) ==
    IF Len(segments) >= num_clips THEN segments
    ELSE LET n == Len(segments)
             last == segments[n]
             mid == RDiv(RAdd(last.start_time, last.end_time), R(2))
             first == ClipSegment(last.clip_index, last.start_time, mid, max_dur,
                                  pacing, last.pacing_note)
             second == ClipSegment(n, mid, last.end_time, max_dur, pacing, "")
         IN  Bisect(Append([segments EXCEPT ![n] = first], second),
                    num_clips, max_dur, pacing)

\* variant: no fallback to the even split
align_to_scenes_no_fallback(video_duration, num_clips, max_dur, scene_boundaries, pacing, pacing_note) ==
    LET boundaries == <<R(0)>> \o Sorted(scene_boundaries) \o <<video_duration>>
        greedy == GreedyPass(2, boundaries, video_duration, num_clips, max_dur,
                             pacing, pacing_note, <<>>, R(0))
    IN  IF greedy = <<>> /\ num_clips > 0
        THEN [raised |-> TRUE, segments |-> <<>>]
        ELSE [raised |-> FALSE, segments |-> Bisect(greedy, num_clips, max_dur, pacing)]

align_to_scenes(video_duration, num_clips, max_dur, scene_boundaries, pacing, pacing_note) ==
    LET boundaries == <<R(0)>> \o Sorted(scene_boundaries) \o <<video_duration>>
        greedy == GreedyPass(2, boundaries, video_duration, num_clips, max_dur,
                             pacing, pacing_note, <<>>, R(0))
    IN  IF Len(boundaries) - 1 < num_clips
        THEN [raised |-> FALSE,
              segments |-> uniform_segments(video_duration, num_clips, max_dur,
                                            pacing, pacing_note)]
        ELSE IF greedy = <<>> /\ num_clips > 0
        THEN [raised |-> TRUE, segments |-> <<>>]   \* segments[-1]: IndexError
        ELSE [raised |-> FALSE, segments |-> Bisect(greedy, num_clips, max_dur, pacing)]

\* scenes = [given |-> FALSE] models scene_boundaries=None
calculate_segments(video_duration, model, scenes) ==
    LET max_dur == get_model_limits(model).max_duration
        plan == SegmentPlan(video_duration, max_dur)
    IN  IF scenes.given /\ Len(scenes.list) > 0
        THEN align_to_scenes(video_duration, plan.num_clips, max_dur, scenes.list,
                             plan.pacing, plan.pacing_note)
        ELSE [raised |-> FALSE,
              segments |-> uniform_segments(video_duration, plan.num_clips, max_dur,
                                            plan.pacing, plan.pacing_note)]

SegIdle == [phase |-> "idle"]

(***************************************************************************)
(* VideoGenerator: one call of generate().  gen.pc is the position inside  *)
(* the call; gen.cause remembers which branch produced the result.         *)
(***************************************************************************)
Providers == {"kie.ai", "defapi.org"}
Models == KnownModels

KIE_MAX_ATTEMPTS == 60
DEFAPI_MAX_ATTEMPTS == 120

TimedOut == "Generation timed out"
HttpStatusError == "Client error '4xx' for url"

\* COST_MAP, in cents
COST_MAP(provider, model) ==
    IF provider = "kie.ai" /\ model = "veo-3.1-fast" THEN 40
    ELSE IF provider = "kie.ai" /\ model = "veo-3.1-quality" THEN 200
    ELSE IF provider = "kie.ai" /\ model = "sora-2" THEN 15
    ELSE IF provider = "defapi.org" /\ model = "defapi-veo-3.1" THEN 50
    ELSE IF provider = "defapi.org" /\ model = "defapi-sora-2" THEN 10
    ELSE 0

KieModelMap == {"veo-3.1-fast", "veo-3.1-quality", "sora-2"}

NoResult ==
    [success |-> FALSE, video_path |-> "None", error |-> "None",
     provider |-> "", model |-> "", cost_estimate |-> 0]

Failure(error, provider, model) ==
    [success |-> FALSE, video_path |-> "None", error |-> error,
     provider |-> provider, model |-> model, cost_estimate |-> 0]

Success(provider, model, cost) ==
    [success |-> TRUE, video_path |-> "video.mp4", error |-> "None",
     provider |-> provider, model |-> model, cost_estimate |-> cost]

\* the image a submission carries: start frame before product image
SeedImage(start_frame, product_image) ==
    IF start_frame THEN "start_frame"
    ELSE IF product_image THEN "product_image"
    ELSE "none"

\* variant: the client is chosen by the provider alone
RouteByProvider(provider, start_frame) ==
    IF provider = "kie.ai" THEN "kie" ELSE "defapi"

\* which client generate() hands the request to
Route(provider, start_frame) ==
    IF start_frame THEN "kie_i2v"
    ELSE IF provider = "kie.ai" THEN "kie"
    ELSE "defapi"

Endpoint(path, model) ==
    IF path = "kie_i2v" THEN "kie:sora-2-image-to-video"
    ELSE IF path = "kie" THEN "kie:text-to-video"
    ELSE IF model = "defapi-sora-2" THEN "defapi:sora2/gen"
    ELSE "defapi:google/veo/generate"

\* variant: one ceiling for every client
MaxAttemptsSingleCeiling(path) == DEFAPI_MAX_ATTEMPTS

MaxAttempts(path) == IF path = "defapi" THEN DEFAPI_MAX_ATTEMPTS ELSE KIE_MAX_ATTEMPTS

\* provider and model a client writes into its own results
ClientProvider(path) == IF path = "defapi" THEN "defapi.org" ELSE "kie.ai"
ClientModel(path, model) == IF path = "kie_i2v" THEN "sora-2-i2v" ELSE model
ClientCost(path, model) ==
    IF path = "kie_i2v" THEN 15
    ELSE IF path = "kie" THEN COST_MAP("kie.ai", model)
    ELSE IF model = "defapi-sora-2" THEN 10 ELSE 50

\* the duration field of the payload a client builds: <<>> when it has none
PayloadDuration(path, model, duration) ==
    IF path = "kie_i2v" THEN <<R(10)>>
    ELSE IF path = "kie" THEN <<RMin(duration, R(8))>>
    ELSE IF model = "defapi-sora-2" THEN <<R(15)>>
    ELSE <<>>

GenIdle ==
    [pc |-> "idle", provider |-> "", model |-> "", product_image |-> FALSE,
     start_frame |-> FALSE, duration |-> R(0), sent_duration |-> <<>>,
     path |-> "none", endpoint |-> "none", image |-> "none",
     attempts |-> 0, last_resp |-> "none", downloads |-> 0, cause |-> "none",
     result |-> NoResult]

GenCall(provider, model, product_image, start_frame, duration) ==
    [GenIdle EXCEPT !.pc = "start", !.provider = provider, !.model = model,
                    !.duration = duration,
                    !.product_image = product_image, !.start_frame = start_frame]

\* return of a GenerationResult to the caller
Return(g, cause, result) == [g EXCEPT !.pc = "returned", !.cause = cause, !.result = result]

\* variant: no except clause, the exception leaves generate()
OnExceptionPropagates(g, cause, message) == [g EXCEPT !.pc = "raised", !.cause = cause]

\* generate(): except Exception as e -> GenerationResult(success=False, error=str(e))
OnException(g, cause, message) ==
    Return(g, cause, Failure(message, g.provider, g.model))

\* what _generate_* returns when its poll returned None
PollReturnedNone(g, cause) ==
    Return(g, cause, Failure(TimedOut, ClientProvider(g.path), ClientModel(g.path, g.model)))

\* generate(): choice of the client, and the payload it builds
GenDispatch ==
    /\ gen.pc = "start"
    /\ LET path == Route(gen.provider, gen.start_frame)
       IN  IF path = "kie" /\ gen.model \notin KieModelMap
           THEN gen' = Return([gen EXCEPT !.path = path], "unsupported_model",
                              Failure("Model not supported by Kie.ai", "", ""))
           ELSE gen' = [gen EXCEPT !.pc = "submit", !.path = path,
                                   !.endpoint = Endpoint(path, gen.model),
                                   !.sent_duration =
                                        PayloadDuration(path, gen.model, gen.duration),
                                   !.image = SeedImage(gen.start_frame, gen.product_image)]
    /\ UNCHANGED <<sg, job, pl, api>>

SubmitResponses(path) ==
    {"ok", "http_error"} \cup (IF path = "defapi" THEN {"code_nonzero", "no_task_id"} ELSE {})

\* client.post(...); response.raise_for_status(); task id
GenSubmit ==
    /\ gen.pc = "submit"
    /\ \E resp \in SubmitResponses(gen.path) :
          gen' = CASE resp = "http_error" -> OnException(gen, "submit_http", HttpStatusError)
                   [] resp = "code_nonzero" ->
                        Return(gen, "api_code", Failure("API error", "defapi.org", gen.model))
                   [] resp = "no_task_id" ->
                        Return(gen, "no_task_id",
                               Failure("No task_id in response", "defapi.org", gen.model))
                   [] OTHER -> [gen EXCEPT !.pc = "poll"]
    /\ UNCHANGED <<sg, job, pl, api>>

\* what a provider may answer to one poll: a status (with or without a video
\* URL), a non-zero response code, or a body that is no JSON
PollResponses ==
    {"pending", "unknown_status", "no_status", "completed_url", "completed_no_url",
     "success_url", "success_no_url", "failed", "error", "code_nonzero", "bad_json"}

\* variant: a failed status is not recognised and the loop goes on
PollVerdictIgnoresFailed(path, resp) ==
    IF resp = "bad_json" THEN "raise"
    ELSE IF resp \in {"completed_url", "success_url"} THEN "url"
    ELSE IF resp \in {"completed_no_url", "success_no_url"} THEN "none_no_url"
    ELSE "sleep"

\* variant: a completed status without a URL is polled again
PollVerdictNoUrlSleeps(path, resp) ==
    IF resp = "bad_json" THEN "raise"
    ELSE IF path = "defapi"
    THEN IF resp = "code_nonzero" THEN "sleep"
         ELSE IF resp \in {"completed_url", "success_url"} THEN "url"
         ELSE IF resp \in {"failed", "error"} THEN "none_failed"
         ELSE "sleep"
    ELSE IF resp = "completed_url" THEN "url"
         ELSE IF resp = "failed" THEN "none_failed"
         ELSE "sleep"

\* variant: a status outside the vocabulary ends the loop as a failure
PollVerdictUnknownFails(path, resp) ==
    IF resp = "bad_json" THEN "raise"
    ELSE IF path = "defapi"
    THEN IF resp = "code_nonzero" THEN "sleep"
         ELSE IF resp \in {"completed_url", "success_url"} THEN "url"
         ELSE IF resp \in {"completed_no_url", "success_no_url"} THEN "none_no_url"
         ELSE IF resp = "pending" THEN "sleep"
         ELSE "none_failed"
    ELSE IF resp = "completed_url" THEN "url"
         ELSE IF resp = "completed_no_url" THEN "none_no_url"
         ELSE IF resp = "pending" THEN "sleep"
         ELSE "none_failed"

\* how the two poll loops read one response
PollVerdict(path, resp) ==
    IF resp = "bad_json" THEN "raise"
    ELSE IF path = "defapi"
    THEN IF resp = "code_nonzero" THEN "sleep"
         ELSE IF resp \in {"completed_url", "success_url"} THEN "url"
         ELSE IF resp \in {"completed_no_url", "success_no_url"} THEN "none_no_url"
         ELSE IF resp \in {"failed", "error"} THEN "none_failed"
         ELSE "sleep"
    ELSE IF resp = "completed_url" THEN "url"
         ELSE IF resp = "completed_no_url" THEN "none_no_url"
         ELSE IF resp = "failed" THEN "none_failed"
         ELSE "sleep"

\* one iteration of `for _ in range(max_attempts)`
GenPoll ==
    /\ gen.pc = "poll"
    /\ gen.attempts < MaxAttempts(gen.path)
    /\ \E resp \in PollResponses :
          LET g == [gen EXCEPT !.attempts = @ + 1, !.last_resp = resp]
              v == PollVerdict(gen.path, resp)
          IN  gen' = CASE v = "url" -> [g EXCEPT !.pc = "download"]
                       [] v = "none_no_url" -> PollReturnedNone(g, "no_url")
                       [] v = "none_failed" -> PollReturnedNone(g, "provider_failed")
                       [] v = "raise" -> OnException(g, "poll_exception", "Expecting value")
                       [] OTHER -> g
    /\ UNCHANGED <<sg, job, pl, api>>

\* the loop ran out: return None
GenPollCeiling ==
    /\ gen.pc = "poll"
    /\ gen.attempts >= MaxAttempts(gen.path)
    /\ gen' = PollReturnedNone(gen, "poll_ceiling")
    /\ UNCHANGED <<sg, job, pl, api>>

\* _download_video, then the success result
GenDownload ==
    /\ gen.pc = "download"
    /\ \E ok \in BOOLEAN :
          LET g == [gen EXCEPT !.downloads = @ + 1]
          IN  gen' = IF ok
                     THEN Return(g, "completed",
                                 Success(ClientProvider(g.path), ClientModel(g.path, g.model),
                                         ClientCost(g.path, g.model)))
                     ELSE OnException(g, "download", HttpStatusError)
    /\ UNCHANGED <<sg, job, pl, api>>


(***************************************************************************)
(* JobState (the Redis hash session:<id>) and process_video_pipeline.      *)
(* pl holds the position of the task (pc), Celery's retry count (attempt), *)
(* the task arguments and the locals of the function.  pl.log is the list  *)
(* of generate() calls of the current attempt with what became of them.    *)
(* Of the hash fields, status, progress, current_step, error, variants and *)
(* total_cost are kept; the counters variants_completed / variants_total,  *)
(* original_duration and scene_count are not.                              *)
(* api is the position of the start_generation handler of api/routes.py    *)
(* with the session's request, and the snapshot the last status read       *)
(* returned while no write has followed it.                                *)
(***************************************************************************)
MAX_RETRIES == 3

\* a write to the session hash: the snapshot a reader holds is no longer current
Written(a) == [a EXCEPT !.current_read = <<>>, !.read_failed = FALSE]

\* hset(mapping) of update_job_status: error is skipped when None,
\* extra_data overwrites or adds fields; hset creates the key when it is absent
update_job_status(j, status, progress, current_step, error, extra) ==
    LET base == [j EXCEPT !.exists = TRUE,
                          !.status = status, !.progress = progress,
                          !.current_step = current_step,
                          !.error = IF error = "None" THEN @ ELSE error]
    IN  [k \in DOMAIN base |-> IF k \in DOMAIN extra THEN extra[k] ELSE base[k]]

NoExtra == [k \in {} |-> 0]

\* the record after create_session and the "Job queued" write of start_generation
JobQueued ==
    [exists |-> TRUE,
     status |-> "pending", progress |-> R(0), current_step |-> "Job queued",
     error |-> "None", variants |-> <<>>, total_cost |-> 0]

\* locals of one run of the task body
FreshLocals(p) ==
    [p EXCEPT !.pc = "w_download_start", !.video_duration = 0, !.num_segments = 0,
              !.num_prompts = 0, !.variant_idx = 0, !.clip_pos = 0,
              !.last_frame = <<>>, !.start_frame = <<>>,
              !.completed_generations = 0, !.variant_clips = <<>>,
              !.all_variants = <<>>, !.exc = "None", !.log = <<>>]

PipelineIdle ==
    [pc |-> "idle", attempt |-> 0, num_variants |-> 0, product_image |-> FALSE,
     provider |-> "", model |-> "", video_duration |-> 0, num_segments |-> 0,
     num_prompts |-> 0, variant_idx |-> 0, clip_pos |-> 0, last_frame |-> <<>>,
     start_frame |-> <<>>, completed_generations |-> 0, variant_clips |-> <<>>,
     all_variants |-> <<>>, exc |-> "None", log |-> <<>>]

Dispatched(num_variants, product_image, provider, model) ==
    FreshLocals([PipelineIdle EXCEPT !.num_variants = num_variants,
                                     !.product_image = product_image,
                                     !.provider = provider, !.model = model])

\* the fixed status writes between the collaborator calls of steps 1-4
Milestone(pc) ==
    CASE pc = "w_download_start" ->
            [status |-> "downloading", progress |-> 5,
             step |-> "Downloading TikTok video...", next |-> "download"]
      [] pc = "w_downloaded" ->
            [status |-> "downloading", progress |-> 15,
             step |-> "Video downloaded successfully", next |-> "w_scene_start"]
      [] pc = "w_scene_start" ->
            [status |-> "analyzing", progress |-> 20,
             step |-> "Detecting scenes...", next |-> "detect"]
      [] pc = "w_scenes" ->
            [status |-> "analyzing", progress |-> 30,
             step |-> "Detected scenes", next |-> "w_segment_start"]
      [] pc = "w_segment_start" ->
            [status |-> "analyzing", progress |-> 32,
             step |-> "Calculating optimal clip segments...", next |-> "segment"]
      [] pc = "w_segments" ->
            [status |-> "analyzing", progress |-> 35,
             step |-> "Video -> clips", next |-> "w_analysis_start"]
      [] pc = "w_analysis_start" ->
            [status |-> "analyzing", progress |-> 40,
             step |-> "Analyzing video...", next |-> "analyze"]
      [] pc = "w_prompts" ->
            [status |-> "analyzing", progress |-> 55,
             step |-> "Generated prompts", next |-> "w_ready"]
      [] pc = "w_ready" ->
            [status |-> "analyzing", progress |-> 60,
             step |-> "Ready to generate clips", next |-> "variant_start"]

MilestonePcs ==
    {"w_download_start", "w_downloaded", "w_scene_start", "w_scenes", "w_segment_start",
     "w_segments", "w_analysis_start", "w_prompts", "w_ready"}

\* variant: the fraction counts the generations that remain
ClipProgressRemaining(completed_generations, total_generations) ==
    RAdd(R(60), RMul(RDiv(R(total_generations - completed_generations),
                          R(total_generations)), R(30)))

\* variant: the clip about to be generated is counted as finished
ClipProgressInclusive(completed_generations, total_generations) ==
    RAdd(R(60), RMul(RDiv(R(completed_generations + 1), R(total_generations)), R(30)))

\* progress of the "generating" write
ClipProgress(completed_generations, total_generations) ==
    RAdd(R(60), RMul(RDiv(R(completed_generations), R(total_generations)), R(30)))

\* the progress of every "generating" write, tabulated once
GeneratingProgress ==
    [total \in 1..MaxGenerations |->
        [completed \in 0..total |-> ClipProgress(completed, total)]]

\* start_frame = last_frame_path if clip_index > 0 and last_frame_path
StartFrame(clip_index, last_frame) ==
    IF clip_index > 0 /\ last_frame # <<>> THEN last_frame ELSE <<>>

\* variant: the chain is not reset
FrameAfterFailureKept(last_frame) == last_frame

\* last_frame_path after a clip whose generation failed
FrameAfterFailure(last_frame) == <<>>

\* variant: the frame of an earlier clip survives the failed extraction
FrameAfterExtractErrorKept(last_frame) == last_frame

\* last_frame_path after extract_last_frame raised
FrameAfterExtractError(last_frame) == <<>>

\* variant: any() instead of all()
VariantStatusAny(variant_clips) ==
    IF \E i \in 1..Len(variant_clips) : variant_clips[i].status = "completed"
    THEN "completed" ELSE "partial"

\* "completed" if all(c["status"] == "completed" ...) else "partial"
VariantStatus(variant_clips) ==
    IF \A i \in 1..Len(variant_clips) : variant_clips[i].status = "completed"
    THEN "completed" ELSE "partial"

RECURSIVE SumCost(_)
SumCost(s) == IF s = <<>> THEN 0 ELSE Head(s).cost + SumCost(Tail(s))

\* variant: only completed variants are counted
RECURSIVE SumTotalCostCompletedOnly(_)
SumTotalCostCompletedOnly(s) ==
    IF s = <<>> THEN 0
    ELSE (IF Head(s).status = "completed" THEN Head(s).total_cost ELSE 0)
             + SumTotalCostCompletedOnly(Tail(s))

RECURSIVE SumTotalCost(_)
SumTotalCost(s) == IF s = <<>> THEN 0 ELSE Head(s).total_cost + SumTotalCost(Tail(s))

\* exception messages str(e) of the collaborators
ExcMessages ==
    {"download failed", "Source file not found", "[Errno 28] No space left on device"}

Raise(p, message) == [p EXCEPT !.pc = "except", !.exc = message]

\* variant: the retry is not counted
RestartUncounted(p) == FreshLocals(p)

\* variant: the handler does not pass the message on
HandlerWriteNoError(j, message) ==
    update_job_status(j, "failed", R(0), "Pipeline failed", "None", NoExtra)

\* the except block: JobState written before self.retry
HandlerWrite(j, message) ==
    update_job_status(j, "failed", R(0), "Pipeline failed", message, NoExtra)

\* self.retry(exc=e, countdown=60) while retries remain: the task runs again
Restart(p) == FreshLocals([p EXCEPT !.attempt = @ + 1])

PMilestone ==
    /\ pl.pc \in MilestonePcs
    /\ LET m == Milestone(pl.pc)
       IN  /\ job' = update_job_status(job, m.status, R(m.progress), m.step, "None", NoExtra)
           /\ pl' = [pl EXCEPT !.pc = m.next]
    /\ api' = Written(api)
    /\ UNCHANGED <<sg, gen>>

PipelineDurations == {0, MaxDuration}

\* video_downloader.download
PDownload ==
    /\ pl.pc = "download"
    /\ \/ \E d \in PipelineDurations :
            pl' = [pl EXCEPT !.pc = "w_downloaded", !.video_duration = d]
       \/ \E msg \in ExcMessages : pl' = Raise(pl, msg)
    /\ UNCHANGED <<sg, gen, job, api>>

\* scene_detector.detect_scenes
PDetectScenes ==
    /\ pl.pc = "detect"
    /\ \/ pl' = [pl EXCEPT !.pc = "w_scenes"]
       \/ \E msg \in ExcMessages : pl' = Raise(pl, msg)
    /\ UNCHANGED <<sg, gen, job, api>>

\* calculate_segments(video_duration, model) for every model and duration of
\* the pipeline, tabulated once
PipelinePlans ==
    [m \in {"veo-3.1-fast", "defapi-sora-2"} |->
        [d \in PipelineDurations |->
            calculate_segments(R(d), m, [given |-> FALSE, list |-> <<>>])]]

\* clip_segmenter.calculate_segments(video_duration, model)
PSegment ==
    /\ pl.pc = "segment"
    /\ LET res == PipelinePlans[pl.model][pl.video_duration]
       IN  pl' = IF res.raised THEN Raise(pl, "list index out of range")
                 ELSE [pl EXCEPT !.pc = "w_segments", !.num_segments = Len(res.segments)]
    /\ UNCHANGED <<sg, gen, job, api>>

\* gemini_analyzer.analyze_video_for_clips: the prompts list
PAnalyze ==
    /\ pl.pc = "analyze"
    /\ \/ \E n \in 1..MaxClips :
            /\ pl.num_variants * n <= MaxGenerations
            /\ pl' = [pl EXCEPT !.pc = "w_prompts", !.num_prompts = n]
       \/ \E msg \in ExcMessages : pl' = Raise(pl, msg)
    /\ UNCHANGED <<sg, gen, job, api>>

\* for variant_idx in range(num_variants): ... ; after the loop, step 6
PVariantStart ==
    /\ pl.pc = "variant_start"
    /\ pl' = IF pl.variant_idx < pl.num_variants
             THEN [pl EXCEPT !.pc = "clip_start", !.variant_clips = <<>>,
                             !.last_frame = <<>>, !.clip_pos = 0]
             ELSE [pl EXCEPT !.pc = "w_completed"]
    /\ UNCHANGED <<sg, gen, job, api>>

\* for clip_prompt in prompts: start frame and the "generating" write;
\* after the last prompt, the variant is closed
PClipStart ==
    /\ pl.pc = "clip_start"
    /\ IF pl.clip_pos < pl.num_prompts
       THEN LET sf == StartFrame(pl.clip_pos, pl.last_frame)
            IN  /\ job' = update_job_status(job, "generating",
                              GeneratingProgress[pl.num_variants * pl.num_prompts]
                                                [pl.completed_generations],
                              "Generating variant, clip", "None", NoExtra)
                /\ pl' = [pl EXCEPT !.pc = "generate", !.start_frame = sf]
                /\ api' = Written(api)
       ELSE /\ pl' = [pl EXCEPT !.pc = "variant_start",
                         !.variant_idx = @ + 1,
                         !.all_variants = Append(@,
                             [variant_index |-> pl.variant_idx,
                              clips |-> pl.variant_clips,
                              status |-> VariantStatus(pl.variant_clips),
                              total_cost |-> SumCost(pl.variant_clips)])]
            /\ UNCHANGED <<job, api>>
    /\ UNCHANGED <<sg, gen>>

\* variant: the clip entry does not keep the error of the result
ClipRecordNoError(clip_index, status, error, cost) ==
    [clip_index |-> clip_index, status |-> status, error |-> "None", cost |-> cost]

ClipRecord(clip_index, status, error, cost) ==
    [clip_index |-> clip_index, status |-> status, error |-> error, cost |-> cost]

\* variant: the slot is the sum of the two indices
SlotIndexSum(variant_idx, num_prompts, clip_index) == variant_idx + clip_index

\* variant_index=variant_idx * len(prompts) + clip_index
SlotIndex(variant_idx, num_prompts, clip_index) == variant_idx * num_prompts + clip_index

\* the decimal digits of a natural number
RECURSIVE Digits(_)
Digits(n) == IF n < 10 THEN <<n>> ELSE Append(Digits(n \div 10), n % 10)

\* f"{n:03d}": at least three digits, padded with zeros on the left
Format03d(n) ==
    LET d == Digits(n)
        pad == IF Len(d) < 3 THEN 3 - Len(d) ELSE 0
    IN  [i \in 1..(pad + Len(d)) |-> IF i <= pad THEN 0 ELSE d[i - pad]]

\* _download_video: output_dir / f"variant_{variant_index:03d}.mp4"
VideoFile(slot) == <<"variant_", Format03d(slot), ".mp4">>

\* extract_last_frame: video_path.parent / f"{video_path.stem}_lastframe.png"
FrameFile(video_file) == <<video_file[1], video_file[2], "_lastframe.png">>

\* what becomes of one generate() call, kept in pl.log
LogEntry(p, outcome) ==
    LET path == Route(p.provider, p.start_frame # <<>>)
        slot == SlotIndex(p.variant_idx, p.num_prompts, p.clip_pos)
    IN  [variant |-> p.variant_idx, clip |-> p.clip_pos,
         path |-> path,
         seed |-> SeedImage(p.start_frame # <<>>, p.product_image),
         frame_of |-> p.start_frame,
         slot |-> slot,
         video_file |-> IF outcome = "ok" THEN VideoFile(slot) ELSE <<>>,
         frame_file |-> <<>>,
         outcome |-> outcome, extracted |-> FALSE]

GenerateErrors == {TimedOut, HttpStatusError}

\* asyncio.run(video_generator.generate(...)) returns; the failure branch
\* records the clip at once
PGenerate ==
    /\ pl.pc = "generate"
    /\ \/ pl' = [pl EXCEPT !.pc = "extract", !.log = Append(@, LogEntry(pl, "ok"))]
       \/ \E err \in GenerateErrors :
            pl' = [pl EXCEPT !.pc = "clip_start",
                      !.log = Append(@, LogEntry(pl, "failed")),
                      !.last_frame = FrameAfterFailure(@),
                      !.variant_clips = Append(@, ClipRecord(pl.clip_pos, "failed", err, 0)),
                      !.completed_generations = @ + 1,
                      !.clip_pos = @ + 1]
    /\ UNCHANGED <<sg, gen, job, api>>

\* variant: the except clause of the extraction moves on to the next prompt
PExtractContinue ==
    /\ pl.pc = "extract"
    /\ \/ pl' = [pl EXCEPT !.pc = "upload",
                           !.last_frame = <<pl.variant_idx, pl.clip_pos>>,
                           !.log[Len(pl.log)].extracted = TRUE,
                           !.log[Len(pl.log)].frame_file =
                                FrameFile(pl.log[Len(pl.log)].video_file)]
       \/ pl' = [pl EXCEPT !.pc = "clip_start", !.last_frame = FrameAfterExtractError(@),
                           !.clip_pos = @ + 1]
    /\ UNCHANGED <<sg, gen, job, api>>

\* image_processor.extract_last_frame inside try/except
PExtract ==
    /\ pl.pc = "extract"
    /\ \/ pl' = [pl EXCEPT !.pc = "upload",
                           !.last_frame = <<pl.variant_idx, pl.clip_pos>>,
                           !.log[Len(pl.log)].extracted = TRUE,
                           !.log[Len(pl.log)].frame_file =
                                FrameFile(pl.log[Len(pl.log)].video_file)]
       \/ pl' = [pl EXCEPT !.pc = "upload", !.last_frame = FrameAfterExtractError(@)]
    /\ UNCHANGED <<sg, gen, job, api>>

\* storage.upload_video, then the "completed" clip record
PUpload ==
    /\ pl.pc = "upload"
    /\ \/ LET path == pl.log[Len(pl.log)].path
          IN  pl' = [pl EXCEPT !.pc = "clip_start",
                        !.variant_clips = Append(@, ClipRecord(pl.clip_pos, "completed", "None",
                                                        ClientCost(path, pl.model))),
                        !.completed_generations = @ + 1,
                        !.clip_pos = @ + 1]
       \/ \E msg \in ExcMessages : pl' = Raise(pl, msg)
    /\ UNCHANGED <<sg, gen, job, api>>

\* step 6: the "completed" write
PFinalize ==
    /\ pl.pc = "w_completed"
    /\ job' = update_job_status(job, "completed", R(100),
                  "All variants generated successfully", "None",
                  [variants |-> pl.all_variants,
                   total_cost |-> SumTotalCost(pl.all_variants)])
    /\ pl' = [pl EXCEPT !.pc = "cleanup"]
    /\ api' = Written(api)
    /\ UNCHANGED <<sg, gen>>

\* video_downloader.cleanup (removal of the task's own temp directory), then return
PCleanup ==
    /\ pl.pc = "cleanup"
    /\ pl' = [pl EXCEPT !.pc = "done"]
    /\ UNCHANGED <<sg, gen, job, api>>

\* except Exception as e: update_job_status(status="failed", ...)
PExcept ==
    /\ pl.pc = "except"
    /\ job' = HandlerWrite(job, pl.exc)
    /\ pl' = [pl EXCEPT !.pc = "retry"]
    /\ api' = Written(api)
    /\ UNCHANGED <<sg, gen>>

\* raise self.retry(exc=e, countdown=60) with max_retries=3
PRetry ==
    /\ pl.pc = "retry"
    /\ pl' = IF pl.attempt < MAX_RETRIES THEN Restart(pl) ELSE [pl EXCEPT !.pc = "dead"]
    /\ UNCHANGED <<sg, gen, job, api>>

(***************************************************************************)
(* api/routes.py: create_session, start_generation and get_job_status.     *)
(***************************************************************************)
\* create_session: the hash of a new session (no progress, current_step or
\* error field yet; get_job_status reads them with defaults 0.0 and "")
JobCreated ==
    [exists |-> TRUE,
     status |-> "pending", progress |-> R(0), current_step |-> "",
     error |-> "None", variants |-> <<>>, total_cost |-> 0]

\* no key session:{id}: a reader finds no field
JobAbsent == [JobCreated EXCEPT !.exists = FALSE]

PipelineConfigs == {<<"kie.ai", "veo-3.1-fast">>, <<"defapi.org", "defapi-sora-2">>}

\* what create_session stored and start_generation hands to the task
Requests ==
    {[num_variants |-> v, product_image |-> pi, provider |-> c[1], model |-> c[2]] :
        v \in 1..MaxVariants, pi \in BOOLEAN, c \in PipelineConfigs}

ApiIdle(req) ==
    [pc |-> "idle", second |-> "idle", request |-> req, current_read |-> <<>>,
     read_failed |-> FALSE]

\* start_generation has returned its response
ApiReturned(req) ==
    [pc |-> "returned", second |-> "idle", request |-> req, current_read |-> <<>>,
     read_failed |-> FALSE]

\* variant: a read that empties the fields it returns
HGetAllDestructive(j) ==
    [reply |-> j, hash |-> [j EXCEPT !.current_step = "", !.progress = R(0)]]

\* redis hgetall: the reply, and the hash as the command leaves it
HGetAll(j) == [reply |-> j, hash |-> j]

\* the stored strings of the model that begin with '[' or '{'
StartsWithBracket(v) == v \in {"[Errno 28] No space left on device"}

\* json.loads(v) if v.decode().startswith(('[', '{')) else v.decode(): none of
\* the strings above is a JSON document, so json.loads raises JSONDecodeError
get_session_data(reply) ==
    [raised |-> \E k \in {"status", "current_step", "error"} : StartsWithBracket(reply[k]),
     data |-> reply]

\* the JobStatusResponse built by get_job_status
JobStatusResponse(data) ==
    [status |-> data.status, progress |-> data.progress,
     current_step |-> data.current_step, error_message |-> data.error]

Processing == {"downloading", "analyzing", "generating"}

\* start_generation: get_session_data and the "already processing" check
StartCheck ==
    /\ api.pc = "idle"
    /\ LET h == HGetAll(job)
           r == get_session_data(h.reply)
       IN  /\ job' = h.hash
           /\ api' = [api EXCEPT !.pc = IF ~job.exists THEN "not_found"
                                        ELSE IF r.raised THEN "error"
                                        ELSE IF r.data.status \in Processing
                                        THEN "rejected" ELSE "checked"]
    /\ UNCHANGED <<sg, gen, pl>>

\* start_generation: process_video_pipeline.delay(...)
StartDispatch ==
    /\ api.pc = "checked"
    /\ pl' = Dispatched(api.request.num_variants, api.request.product_image,
                        api.request.provider, api.request.model)
    /\ api' = [api EXCEPT !.pc = "dispatched"]
    /\ UNCHANGED <<sg, gen, job>>

\* start_generation: update_job_status(status="pending", progress=0.0,
\* current_step="Job queued"), then the response
StartWriteQueued ==
    /\ api.pc = "dispatched"
    /\ job' = update_job_status(job, "pending", R(0), "Job queued", "None", NoExtra)
    /\ api' = Written([api EXCEPT !.pc = "returned"])
    /\ UNCHANGED <<sg, gen, pl>>

\* GET /sessions/{id}/status
GetJobStatus ==
    /\ LET h == HGetAll(job)
           r == get_session_data(h.reply)
       IN  /\ job' = h.hash
           /\ api' = IF ~job.exists
                     THEN [api EXCEPT !.current_read = <<>>, !.read_failed = FALSE]
                     ELSE IF r.raised
                     THEN [api EXCEPT !.current_read = <<>>, !.read_failed = TRUE]
                     ELSE [api EXCEPT !.current_read = <<JobStatusResponse(r.data)>>,
                                      !.read_failed = FALSE]
    /\ UNCHANGED <<sg, gen, pl>>

(***************************************************************************)
(* The pipeline task alone: start_generation has returned before the       *)
(* worker picks the task up.                                               *)
(***************************************************************************)
Init ==
    /\ sg = SegIdle
    /\ gen = GenIdle
    /\ job = JobQueued
    /\ \E req \in Requests :
          /\ pl = Dispatched(req.num_variants, req.product_image, req.provider, req.model)
          /\ api = ApiReturned(req)

Next ==
    \/ PMilestone \/ PDownload \/ PDetectScenes \/ PSegment \/ PAnalyze
    \/ PVariantStart \/ PClipStart \/ PGenerate \/ PExtract \/ PUpload
    \/ PFinalize \/ PCleanup \/ PExcept \/ PRetry

Spec == Init /\ [][Next]_vars

(***************************************************************************)
(* The API handlers running concurrently with the worker.                  *)
(***************************************************************************)
NoRequest == [num_variants |-> 0, product_image |-> FALSE, provider |-> "", model |-> ""]

\* the sessions of this specification: the handlers treat every provider,
\* model and product image alike
ApiRequests == {req \in Requests : req.product_image /\ req.provider = "kie.ai"}

InitApi ==
    /\ sg = SegIdle
    /\ gen = GenIdle
    /\ job = JobCreated
    /\ pl = PipelineIdle
    /\ api \in {ApiIdle(req) : req \in ApiRequests}

NextApi == StartCheck \/ StartDispatch \/ StartWriteQueued \/ GetJobStatus \/ Next

SpecApi == InitApi /\ [][NextApi]_vars

(***************************************************************************)
(* Two POST /sessions/{id}/generate requests for one session.  api.second  *)
(* is the position of the second handler; of the run it dispatches only    *)
(* the dispatch itself is kept.                                            *)
(***************************************************************************)
\* start_generation of the second request: the "already processing" check
SecondStartCheck ==
    /\ api.second = "idle"
    /\ LET h == HGetAll(job)
           r == get_session_data(h.reply)
       IN  /\ job' = h.hash
           /\ api' = [api EXCEPT !.second = IF ~job.exists THEN "not_found"
                                            ELSE IF r.raised THEN "error"
                                            ELSE IF r.data.status \in Processing
                                            THEN "rejected" ELSE "checked"]
    /\ UNCHANGED <<sg, gen, pl>>

\* process_video_pipeline.delay(...) of the second request
SecondStartDispatch ==
    /\ api.second = "checked"
    /\ api' = [api EXCEPT !.second = "dispatched"]
    /\ UNCHANGED <<sg, gen, job, pl>>

\* the "Job queued" write and the response of the second request
SecondStartWriteQueued ==
    /\ api.second = "dispatched"
    /\ job' = update_job_status(job, "pending", R(0), "Job queued", "None", NoExtra)
    /\ api' = Written([api EXCEPT !.second = "returned"])
    /\ UNCHANGED <<sg, gen, pl>>

StartRequests == {req \in ApiRequests : req.num_variants = 1}

InitStart ==
    /\ sg = SegIdle
    /\ gen = GenIdle
    /\ job = JobCreated
    /\ pl = PipelineIdle
    /\ api \in {ApiIdle(req) : req \in StartRequests}

NextStart ==
    \/ StartCheck \/ StartDispatch \/ StartWriteQueued
    \/ SecondStartCheck \/ SecondStartDispatch \/ SecondStartWriteQueued
    \/ Next

SpecStart == InitStart /\ [][NextStart]_vars

(***************************************************************************)
(* DELETE /sessions/{id} while the task of the session is queued, running  *)
(* or awaiting its retry.  start_generation has returned.                   *)
(***************************************************************************)
\* delete_session: 404 when the key is absent, else redis_client.delete
DeleteSession ==
    /\ job.exists
    /\ job' = JobAbsent
    /\ api' = Written(api)
    /\ UNCHANGED <<sg, gen, pl>>

InitDelete ==
    /\ sg = SegIdle
    /\ gen = GenIdle
    /\ job = JobQueued
    /\ \E req \in StartRequests :
          /\ pl = Dispatched(req.num_variants, req.product_image, req.provider, req.model)
          /\ api = ApiReturned(req)

NextDelete == DeleteSession \/ Next

SpecDelete == InitDelete /\ [][NextDelete]_vars

(***************************************************************************)
(* The pipeline task when every collaborator call returns and the worker   *)
(* keeps running: a step that can be taken is eventually taken.            *)
(***************************************************************************)
SpecLive == Init /\ [][Next]_vars /\ WF_vars(Next)

(***************************************************************************)
(* Specification of one generate() call.                                   *)
(***************************************************************************)
\* target_duration of a clip of the model, as the segmenter caps it
TargetDurations(model) ==
    {R(d) : d \in {t \in {5, 8, 15} : RLe(R(t), get_model_limits(model).max_duration)}}

InitGen ==
    /\ sg = SegIdle
    /\ job = JobQueued
    /\ pl = PipelineIdle
    /\ api = ApiReturned(NoRequest)
    /\ \E p \in Providers, m \in Models, pi \in BOOLEAN, sf \in BOOLEAN :
          \E d \in TargetDurations(m) : gen = GenCall(p, m, pi, sf, d)

NextGen == GenDispatch \/ GenSubmit \/ GenPoll \/ GenPollCeiling \/ GenDownload

SpecGen == InitGen /\ [][NextGen]_vars

(***************************************************************************)
(* Inputs of the segmenter specification.                                  *)
(***************************************************************************)
Durations == 0..MaxDuration
SegModels == {"veo-3.1-fast", "defapi-sora-2", "unknown-model"}
SceneTimes == {t \in 0..MaxDuration : t % 4 = 0}

RECURSIVE SeqsUpTo(_, _)
SeqsUpTo(S, n) ==
    IF n = 0 THEN {<<>>}
    ELSE LET shorter == SeqsUpTo(S, n - 1)
         IN  shorter \cup {Append(s, x) : s \in {t \in shorter : Len(t) = n - 1}, x \in S}

SceneInputs ==
    {[given |-> FALSE, list |-> <<>>]} \cup
    {[given |-> TRUE, list |-> [i \in 1..Len(s) |-> R(s[i])]] : s \in SeqsUpTo(SceneTimes, MaxScenes)}

InitSeg ==
    /\ gen = GenIdle
    /\ job = JobQueued
    /\ pl = PipelineIdle
    /\ api = ApiReturned(NoRequest)
    /\ sg \in {[phase |-> "input", video_duration |-> d, model |-> m, scenes |-> sc]
                : d \in Durations, m \in SegModels, sc \in SceneInputs}

Calculate ==
    /\ sg.phase = "input"
    /\ LET res == calculate_segments(R(sg.video_duration), sg.model, sg.scenes)
       IN  sg' = [phase |-> "done", video_duration |-> sg.video_duration,
                  model |-> sg.model, scenes |-> sg.scenes,
                  raised |-> res.raised, segments |-> res.segments]
    /\ UNCHANGED <<gen, job, pl, api>>

NextSeg == Calculate

SpecSeg == InitSeg /\ [][NextSeg]_vars

(***************************************************************************)
(* C1: for every video_duration > 0, model and optional scene boundaries,  *)
(* the durations of the returned segments sum to video_duration.           *)
(***************************************************************************)
SegDurations == [i \in 1..Len(sg.segments) |-> sg.segments[i].duration]

C1_DurationsSumToVideoDuration ==
    (sg.phase = "done" /\ sg.video_duration > 0 /\ ~sg.raised)
        => RSum(SegDurations) = R(sg.video_duration)

(***************************************************************************)
(* C2: in an attempt, every clip of every variant is attempted exactly     *)
(* once and in order, whatever fails (the k-th generate() call is clip     *)
(* k mod N of variant k div N, and a finished attempt made V*N calls), and *)
(* a recorded variant is partial iff one of its clips failed, completed    *)
(* iff all of them succeeded.                                              *)
(***************************************************************************)
VariantFailed(v) ==
    \E i \in 1..Len(pl.log) : pl.log[i].variant = v /\ pl.log[i].outcome = "failed"

PastGeneration == pl.pc \in {"w_completed", "cleanup", "done"}

C2_EveryClipAttemptedOnce ==
    /\ \A i \in 1..Len(pl.log) :
          /\ pl.num_prompts > 0
          /\ pl.log[i].variant = (i - 1) \div pl.num_prompts
          /\ pl.log[i].clip = (i - 1) % pl.num_prompts
    /\ PastGeneration => Len(pl.log) = pl.num_variants * pl.num_prompts
    /\ PastGeneration => Len(pl.all_variants) = pl.num_variants
    /\ \A j \in 1..Len(pl.all_variants) :
          LET v == pl.all_variants[j]
          IN  /\ v.variant_index = j - 1
              /\ Len(v.clips) = pl.num_prompts
              /\ (v.status = "partial") <=> VariantFailed(j - 1)
              /\ (v.status = "completed") <=> ~VariantFailed(j - 1)
              /\ \A k \in 1..Len(v.clips) :
                    (v.clips[k].status = "failed")
                        <=> (pl.log[(j - 1) * pl.num_prompts + k].outcome = "failed")

\* clip 0 of a 3-clip variant failed, clips 1 and 2 were attempted, variant partial
C2_Witness ==
    /\ pl.pc = "done"
    /\ pl.num_prompts = 3
    /\ pl.log[1].outcome = "failed"
    /\ pl.log[2].outcome = "ok"
    /\ Len(pl.log) = 3
    /\ pl.all_variants[1].status = "partial"

(***************************************************************************)
(* C3: clip 0 is seeded with the product image when one exists; clip k>0   *)
(* is seeded with the last frame of clip k-1 of the same variant when that *)
(* clip succeeded and its frame was extracted, and otherwise with the      *)
(* product image when one exists.                                          *)
(***************************************************************************)
ProductSeed == IF pl.product_image THEN "product_image" ELSE "none"

C3_SeedOfEveryRequest ==
    \A i \in 1..Len(pl.log) :
        LET e == pl.log[i]
        IN  IF e.clip > 0 /\ pl.log[i - 1].outcome = "ok" /\ pl.log[i - 1].extracted
            THEN /\ e.seed = "start_frame"
                 /\ e.frame_of = <<e.variant, e.clip - 1>>
                 /\ pl.log[i - 1].variant = e.variant
            ELSE /\ e.seed = ProductSeed
                 /\ e.frame_of = <<>>

\* a chained clip, and a clip that fell back to the product image after a failure
C3_Witness ==
    /\ Len(pl.log) >= 3
    /\ pl.product_image
    /\ pl.log[1].variant = pl.log[3].variant
    /\ pl.log[1].seed = "product_image"
    /\ pl.log[2].seed = "start_frame"
    /\ pl.log[2].outcome = "failed"
    /\ pl.log[3].seed = "product_image"

(***************************************************************************)
(* C4: within one attempt, leaving aside the write of the exception        *)
(* handler, every progress value written lies in 0..100 and is not below   *)
(* the value written before it in that attempt.                            *)
(***************************************************************************)
C4_ProgressMonotoneInAttempt ==
    [][(job' # job /\ pl.pc # "except")
          => /\ RLe(R(0), job'.progress) /\ RLe(job'.progress, R(100))
             /\ (pl.pc # "w_download_start" => RLe(job.progress, job'.progress))]_vars

\* a generating write strictly inside (60, 90) after a failed clip
C4_Witness ==
    /\ job.status = "generating"
    /\ RLt(R(60), job.progress)
    /\ RLt(job.progress, R(90))
    /\ \E i \in 1..Len(pl.log) : pl.log[i].outcome = "failed"
    /\ \E i \in 1..Len(pl.log) : pl.log[i].outcome = "ok"

(***************************************************************************)
(* C5: across all writes for a session, including the write of the         *)
(* exception handler and the writes of later retries, progress never       *)
(* decreases.                                                              *)
(***************************************************************************)
C5_ProgressNeverDecreases == [][RLe(job.progress, job'.progress)]_vars

(***************************************************************************)
(* C6: generate() never raises: a non-2xx submission, a poll-ceiling       *)
(* timeout, a provider-reported failure and a failed download each end in  *)
(* a returned result with success = false and a non-empty error.           *)
(***************************************************************************)
FailureCauses == {"submit_http", "poll_ceiling", "provider_failed", "download"}

C6_FailuresAreReturned ==
    /\ gen.pc # "raised"
    /\ gen.cause \in FailureCauses
          => /\ gen.pc = "returned"
             /\ ~gen.result.success
             /\ gen.result.error \notin {"None", ""}

C6_Witness ==
    /\ gen.pc = "returned"
    /\ gen.cause = "download"
    /\ gen.downloads = 1

(***************************************************************************)
(* C7: the client polls at most 60 times (kie.ai clients) or 120 times     *)
(* (defapi client); when the ceiling is reached without a terminal status  *)
(* it returns success = false with error "Generation timed out".           *)
(***************************************************************************)
ClaimedCeiling == IF gen.path = "defapi" THEN 120 ELSE 60

C7_PollCeiling ==
    /\ gen.attempts <= ClaimedCeiling
    /\ gen.cause = "poll_ceiling"
          => /\ gen.pc = "returned"
             /\ gen.attempts = ClaimedCeiling
             /\ ~gen.result.success
             /\ gen.result.error = "Generation timed out"

C7_Witness ==
    /\ gen.pc = "returned"
    /\ gen.cause = "poll_ceiling"
    /\ gen.path = "kie"
    /\ gen.attempts = 60

(***************************************************************************)
(* C8: a poll response with a failed status (failed for the kie.ai         *)
(* clients, failed or error for defapi) ends the call at once: the result  *)
(* is returned with success = false and no video_path, and nothing is      *)
(* downloaded.                                                             *)
(***************************************************************************)
ReportedFailure ==
    \/ gen.last_resp = "failed"
    \/ gen.path = "defapi" /\ gen.last_resp = "error"

C8_FailedStatusReturnsFailure ==
    ReportedFailure
        => /\ gen.pc = "returned"
           /\ ~gen.result.success
           /\ gen.result.video_path = "None"
           /\ gen.downloads = 0

C8_Witness ==
    /\ gen.path = "defapi"
    /\ gen.last_resp = "error"
    /\ gen.pc = "returned"
    /\ gen.attempts > 1

(***************************************************************************)
(* C9: a result produced because the provider reported failed/error        *)
(* carries an error different from the "Generation timed out" of the poll  *)
(* ceiling.                                                                *)
(***************************************************************************)
C9_FailureDistinctFromTimeout ==
    (gen.pc = "returned" /\ ReportedFailure)
        => gen.result.error # "Generation timed out"

(***************************************************************************)
(* C10: when a step of the body raises, JobState is written failed with    *)
(* the exception message before the retry is signalled, and a retry starts *)
(* again at the download step with none of the aborted attempt's results.  *)
(***************************************************************************)
C10_FailedWrittenThenRestart ==
    /\ [](pl.pc \in {"retry", "dead"} => (job.status = "failed" /\ job.error = pl.exc))
    /\ [][pl'.attempt # pl.attempt
            => /\ pl.pc = "retry"
               /\ job.status = "failed"
               /\ pl'.attempt = pl.attempt + 1
               /\ pl'.pc = "w_download_start"
               /\ pl'.num_prompts = 0
               /\ pl'.completed_generations = 0
               /\ pl'.variant_clips = <<>>
               /\ pl'.all_variants = <<>>
               /\ pl'.last_frame = <<>>
               /\ pl'.log = <<>>]_vars

\* the handler has written the failure of the first retry
C10_Witness ==
    /\ pl.attempt = 1
    /\ pl.pc = "retry"
    /\ pl.log = <<>>
    /\ pl.exc = "download failed"
    /\ job.error = "download failed"

(***************************************************************************)
(* C11: once the task has written status completed or failed, no later     *)
(* write changes status, progress or current_step.                         *)
(***************************************************************************)
C11_TerminalStateIsFinal ==
    [][job.status \in {"completed", "failed"}
          => /\ job'.status = job.status
             /\ job'.progress = job.progress
             /\ job'.current_step = job.current_step]_vars

(***************************************************************************)
(* C12: a failed clip generation writes nothing at the top level of        *)
(* JobState: only the exception handler sets error or status failed, a run *)
(* that raises nothing ends completed with no top-level error whatever     *)
(* clips failed, and every failure is in its clip's entry of the variants  *)
(* list.                                                                   *)
(***************************************************************************)
C12_ClipFailuresStayInVariants ==
    /\ [][pl.pc = "generate" => job' = job]_vars
    /\ [][(job'.error # job.error \/ (job'.status = "failed" /\ job.status # "failed"))
             => pl.pc = "except"]_vars
    /\ [](pl.pc = "done"
            => /\ job.status = "completed"
               /\ pl.attempt = 0 => job.error = "None"
               /\ \A i \in 1..Len(pl.log) :
                     LET e == pl.log[i]
                         c == job.variants[e.variant + 1].clips[e.clip + 1]
                     IN  IF e.outcome = "failed"
                         THEN c.status = "failed" /\ c.error \in GenerateErrors
                         ELSE c.status = "completed" /\ c.error = "None")

\* every clip of a first attempt failed and the job is completed
C12_Witness ==
    /\ pl.pc = "done"
    /\ pl.attempt = 0
    /\ Len(pl.log) >= 2
    /\ \A i \in 1..Len(pl.log) : pl.log[i].outcome = "failed"
    /\ job.status = "completed"
    /\ job.variants[1].clips[1].error = TimedOut

(***************************************************************************)
(* C13: when extract_last_frame raises for a generated clip the task goes  *)
(* on: the clip is uploaded and recorded completed, the next clip of the   *)
(* variant is requested without a start frame, and the clips after it are  *)
(* attempted.                                                              *)
(***************************************************************************)
ExtractRaised(i) ==
    /\ pl.log[i].outcome = "ok"
    /\ ~pl.log[i].extracted
    /\ (i < Len(pl.log) \/ pl.pc # "extract")

RecordedClips(v) ==
    IF v < Len(pl.all_variants) THEN pl.all_variants[v + 1].clips ELSE pl.variant_clips

C13_ExtractFailureIsNotFatal ==
    /\ [][pl.pc = "extract" => (pl'.pc = "upload" /\ job' = job)]_vars
    /\ [][(pl.pc = "upload" /\ pl'.pc # "except")
             => /\ pl'.pc = "clip_start"
                /\ pl'.clip_pos = pl.clip_pos + 1
                /\ Len(pl'.variant_clips) = pl'.clip_pos
                /\ pl'.variant_clips[pl'.clip_pos].status = "completed"]_vars
    /\ [](\A i \in 1..Len(pl.log) :
            (ExtractRaised(i) /\ i < Len(pl.log))
               => /\ RecordedClips(pl.log[i].variant)[pl.log[i].clip + 1].status = "completed"
                  /\ pl.log[i + 1].frame_of = <<>>
                  /\ pl.log[i + 1].seed # "start_frame"
                  /\ pl.log[i].clip + 1 < pl.num_prompts
                        => (pl.log[i + 1].variant = pl.log[i].variant
                            /\ pl.log[i + 1].clip = pl.log[i].clip + 1))

\* clip 0 gave a frame, the extraction after clip 1 raised, clip 2 was requested
C13_Witness ==
    /\ Len(pl.log) = 3
    /\ pl.log[1].extracted
    /\ pl.log[2].seed = "start_frame"
    /\ ExtractRaised(2)
    /\ pl.log[3].variant = pl.log[2].variant
    /\ pl.pc = "done"

(***************************************************************************)
(* C14: after start_generation has dispatched the task, its "Job queued"   *)
(* write never lands on a state the running task has already written.      *)
(***************************************************************************)
C14_QueuedWriteNeverOverwrites ==
    [][(api.pc = "dispatched" /\ api'.pc = "returned")
          => (pl.pc = "w_download_start" /\ pl.attempt = 0 /\ job = JobCreated)]_vars

(***************************************************************************)
(* C15: a status read leaves the session record as it was, and a read that *)
(* follows another read with no write in between returns the same          *)
(* snapshot.                                                               *)
(***************************************************************************)
ReadReturned ==
    /\ api'.pc = api.pc
    /\ pl' = pl
    /\ api'.current_read # <<>>

C15_ReadsDoNotModify ==
    [][ReadReturned
          => /\ job' = job
             /\ api'.current_read[1].status = job.status
             /\ api'.current_read[1].progress = job.progress
             /\ api.current_read # <<>> => api'.current_read = api.current_read]_vars

\* a reader holds a snapshot taken while clips are generated
C15_Witness ==
    /\ api.current_read # <<>>
    /\ api.current_read[1].status = "generating"
    /\ job.status = "generating"
    /\ RLt(R(60), api.current_read[1].progress)

(***************************************************************************)
(* C16: without scene boundaries the clip count follows the remainder      *)
(* rule: with min_clips = max(1, floor(d / max_dur)) and remainder =        *)
(* d - min_clips * max_dur, the result has min_clips clips of pacing       *)
(* normal when remainder <= 0, min_clips clips of pacing slightly_faster   *)
(* when 0 < remainder <= 3, and min_clips + 1 clips of pacing normal       *)
(* when remainder > 3.                                                     *)
(***************************************************************************)
ClaimedMaxDur == IF sg.model = "defapi-sora-2" THEN 15 ELSE 8

AllPacing(p) == \A i \in 1..Len(sg.segments) : sg.segments[i].pacing = p

C16_RemainderRule ==
    (sg.phase = "done" /\ (~sg.scenes.given \/ sg.scenes.list = <<>>))
        => LET d == sg.video_duration
               q == d \div ClaimedMaxDur
               min_clips == IF q > 1 THEN q ELSE 1
               remainder == d - min_clips * ClaimedMaxDur
               n == Len(sg.segments)
           IN  /\ ~sg.raised
               /\ IF remainder <= 0 THEN n = min_clips /\ AllPacing("normal")
                  ELSE IF remainder <= 3 THEN n = min_clips /\ AllPacing("slightly_faster")
                  ELSE n = min_clips + 1 /\ AllPacing("normal")

\* 19 s with an 8 s limit: the remainder equals the threshold
C16_Witness ==
    /\ sg.phase = "done"
    /\ ~sg.scenes.given
    /\ sg.video_duration = 19
    /\ sg.model = "veo-3.1-fast"
    /\ Len(sg.segments) = 2
    /\ AllPacing("slightly_faster")

(***************************************************************************)
(* C17: for every video_duration > 0, every returned segment has           *)
(* target_duration <= the max_duration of the model, with or without       *)
(* scene boundaries.                                                       *)
(***************************************************************************)
C17_TargetWithinModelLimit ==
    (sg.phase = "done" /\ sg.video_duration > 0 /\ ~sg.raised)
        => \A i \in 1..Len(sg.segments) :
              RLe(sg.segments[i].target_duration, R(ClaimedMaxDur))

\* a scene-aligned clip longer than the limit, capped at the limit
C17_Witness ==
    /\ sg.phase = "done"
    /\ sg.scenes.given
    /\ sg.scenes.list # <<>>
    /\ \E i \in 1..Len(sg.segments) :
          /\ RLt(R(ClaimedMaxDur), sg.segments[i].duration)
          /\ sg.segments[i].target_duration = R(ClaimedMaxDur)
          /\ sg.segments[i].start_time # R(0)

(***************************************************************************)
(* C18: the pacing note of clip 0 is non-empty exactly when the pacing is  *)
(* slightly_faster, and every clip after clip 0 has an empty pacing note,  *)
(* including clips made by scene alignment and by bisection.               *)
(***************************************************************************)
C18_PacingNoteOnFirstClipOnly ==
    (sg.phase = "done" /\ ~sg.raised)
        => \A i \in 1..Len(sg.segments) :
              LET c == sg.segments[i]
              IN  /\ c.clip_index = 0
                        => ((c.pacing_note # "") <=> (c.pacing = "slightly_faster"))
                  /\ (i > 1 \/ c.clip_index > 0) => c.pacing_note = ""

\* 17 s with a scene boundary at 0: one greedy clip, split at 8.5
C18_Witness ==
    /\ sg.phase = "done"
    /\ sg.video_duration = 17
    /\ sg.model = "veo-3.1-fast"
    /\ sg.scenes.given
    /\ sg.scenes.list = <<R(0)>>
    /\ Len(sg.segments) = 2
    /\ sg.segments[1].end_time = <<17, 2>>
    /\ sg.segments[1].pacing_note # ""
    /\ sg.segments[2].pacing_note = ""

(***************************************************************************)
(* C19: when the downloaded video has duration zero the task aborts at     *)
(* segmentation: no scene detection, prompt generation, clip generation or *)
(* upload is called and no clip is generated.                              *)
(***************************************************************************)
ExternalCallPcs == {"detect", "analyze", "generate", "extract", "upload"}

ZeroDurationDownloaded ==
    /\ pl.video_duration = 0
    /\ pl.pc \notin {"idle", "w_download_start", "download"}

C19_ZeroDurationAborts ==
    ZeroDurationDownloaded
        => /\ pl.pc \notin ExternalCallPcs
           /\ pl.num_segments = 0
           /\ pl.log = <<>>

(***************************************************************************)
(* C20: for video_duration = 0 and for every video_duration up to the      *)
(* max_duration of the model the result is exactly one segment from 0 to   *)
(* video_duration with pacing normal and an empty pacing note, with or     *)
(* without scene boundaries.                                               *)
(***************************************************************************)
C20_SingleSegment ==
    (sg.phase = "done" /\ sg.video_duration <= ClaimedMaxDur)
        => /\ ~sg.raised
           /\ Len(sg.segments) = 1
           /\ sg.segments[1].start_time = R(0)
           /\ sg.segments[1].end_time = R(sg.video_duration)
           /\ sg.segments[1].pacing = "normal"
           /\ sg.segments[1].pacing_note = ""

\* an 8 s video with scene boundaries inside it
C20_Witness ==
    /\ sg.phase = "done"
    /\ sg.video_duration = 8
    /\ sg.model = "veo-3.1-fast"
    /\ sg.scenes.given
    /\ sg.scenes.list = <<R(4), R(0)>>
    /\ Len(sg.segments) = 1
    /\ sg.segments[1].end_time = R(8)

(***************************************************************************)
(* C21: when scene boundaries are supplied and there are fewer of them     *)
(* than the chosen num_clips, the result is the even split.                *)
(* Amended: when scene boundaries are supplied and their number plus one   *)
(* (the number of scenes between 0 and video_duration) is smaller than the *)
(* chosen num_clips, the result is the even split.                         *)
(***************************************************************************)
ClaimedNumClips ==
    LET d == sg.video_duration
        q == d \div ClaimedMaxDur
        min_clips == IF q > 1 THEN q ELSE 1
    IN  IF d - min_clips * ClaimedMaxDur > 3 THEN min_clips + 1 ELSE min_clips

ScenesSupplied == sg.scenes.given /\ sg.scenes.list # <<>>

IsEvenSplit ==
    /\ ~sg.raised
    /\ Len(sg.segments) = ClaimedNumClips
    /\ \A i \in 1..Len(sg.segments) :
          /\ sg.segments[i].clip_index = i - 1
          /\ sg.segments[i].start_time = RNorm((i - 1) * sg.video_duration, ClaimedNumClips)
          /\ sg.segments[i].end_time = RNorm(i * sg.video_duration, ClaimedNumClips)

C21_FewerBoundariesThanClips ==
    (sg.phase = "done" /\ ScenesSupplied /\ Len(sg.scenes.list) < ClaimedNumClips)
        => IsEvenSplit

C21_FewerScenesThanClips ==
    (sg.phase = "done" /\ ScenesSupplied /\ Len(sg.scenes.list) + 1 < ClaimedNumClips)
        => IsEvenSplit

\* one boundary at 8 s for three clips of a 20 s video
C21_Witness ==
    /\ sg.phase = "done"
    /\ sg.video_duration = 20
    /\ sg.scenes.given
    /\ sg.scenes.list = <<R(8)>>
    /\ Len(sg.segments) = 3
    /\ sg.segments[1].end_time = <<20, 3>>

(***************************************************************************)
(* C22: for every input the result has exactly the num_clips of the        *)
(* remainder rule; when the greedy pass closes fewer clips, the last clip  *)
(* is split at its midpoint until the count is reached, and the            *)
(* computation ends without an error.                                      *)
(***************************************************************************)
C22_ExactlyNumClips ==
    sg.phase = "done"
        => /\ ~sg.raised
           /\ Len(sg.segments) = ClaimedNumClips
           /\ \A i \in 1..Len(sg.segments) : sg.segments[i].clip_index = i - 1

\* the greedy pass closed one clip [0, 20]; two splits give 10, 15
C22_Witness ==
    /\ sg.phase = "done"
    /\ sg.video_duration = 20
    /\ sg.model = "veo-3.1-fast"
    /\ sg.scenes.list = <<R(0), R(0)>>
    /\ Len(sg.segments) = 3
    /\ sg.segments[1].end_time = R(10)
    /\ sg.segments[2].end_time = R(15)
    /\ sg.segments[3].end_time = R(20)

(***************************************************************************)
(* C23: for video_duration > 0 and any scene boundaries, every returned    *)
(* segment has end_time > start_time and duration = end_time - start_time. *)
(***************************************************************************)
C23_SegmentsNonEmpty ==
    (sg.phase = "done" /\ sg.video_duration > 0 /\ ~sg.raised)
        => \A i \in 1..Len(sg.segments) :
              /\ RLt(sg.segments[i].start_time, sg.segments[i].end_time)
              /\ sg.segments[i].duration
                    = RSub(sg.segments[i].end_time, sg.segments[i].start_time)

(***************************************************************************)
(* C24: a poll response with a completed status (completed for the kie.ai  *)
(* clients, completed or success for defapi) that carries no video URL     *)
(* ends the call at once: success = false, no further poll, no download.   *)
(***************************************************************************)
CompletedWithoutUrl ==
    \/ gen.last_resp = "completed_no_url"
    \/ gen.path = "defapi" /\ gen.last_resp = "success_no_url"

C24_CompletedWithoutUrlFails ==
    CompletedWithoutUrl
        => /\ gen.pc = "returned"
           /\ ~gen.result.success
           /\ gen.result.video_path = "None"
           /\ gen.downloads = 0

C24_Witness ==
    /\ gen.path = "kie_i2v"
    /\ gen.last_resp = "completed_no_url"
    /\ gen.pc = "returned"
    /\ gen.attempts = 2
    /\ gen.result.error = TimedOut

(***************************************************************************)
(* C25: a poll response whose status is not a terminal status of the       *)
(* client (an unknown status, no status, or for defapi a non-zero code)    *)
(* is treated as pending: the loop goes on, and the call ends after such a *)
(* response only at the attempt ceiling.                                   *)
(***************************************************************************)
Unrecognized ==
    {"unknown_status", "no_status"}
        \cup (IF gen.path = "defapi" THEN {"code_nonzero"} ELSE {})

C25_UnrecognizedIsPending ==
    gen.last_resp \in Unrecognized
        => \/ gen.pc = "poll"
           \/ /\ gen.pc = "returned"
              /\ gen.attempts = ClaimedCeiling
              /\ gen.result.error = "Generation timed out"

\* the defapi loop goes on after a non-zero code
C25_Witness ==
    /\ gen.path = "defapi"
    /\ gen.last_resp = "code_nonzero"
    /\ gen.pc = "poll"
    /\ gen.attempts = 3

(***************************************************************************)
(* C26: the cost_estimate of a successful result is the price-table entry  *)
(* of the requested (provider, model), whatever the seed image, and every  *)
(* failed result has cost 0.                                               *)
(***************************************************************************)
PriceTableKeys ==
    {<<"kie.ai", "veo-3.1-fast">>, <<"kie.ai", "veo-3.1-quality">>, <<"kie.ai", "sora-2">>,
     <<"defapi.org", "defapi-veo-3.1">>, <<"defapi.org", "defapi-sora-2">>}

C26_CostFromPriceTable ==
    gen.pc = "returned"
        => IF gen.result.success
           THEN <<gen.provider, gen.model>> \in PriceTableKeys
                    => gen.result.cost_estimate = COST_MAP(gen.provider, gen.model)
           ELSE gen.result.cost_estimate = 0

(***************************************************************************)
(* C27: in the JobState of a completed run the variants list has           *)
(* num_variants entries in variant order, each with one clip record per    *)
(* prompt in clip order; a variant's total_cost is the sum of its clips'   *)
(* costs (0 for a failed clip) and the job's total_cost is the sum of the  *)
(* variants' total_cost.                                                   *)
(***************************************************************************)
RECURSIVE CostOfClips(_, _)
CostOfClips(clips, n) == IF n = 0 THEN 0 ELSE clips[n].cost + CostOfClips(clips, n - 1)

RECURSIVE CostOfVariants(_, _)
CostOfVariants(vs, n) == IF n = 0 THEN 0 ELSE vs[n].total_cost + CostOfVariants(vs, n - 1)

C27_CostsAddUp ==
    job.status = "completed"
        => /\ Len(job.variants) = pl.num_variants
           /\ job.total_cost = CostOfVariants(job.variants, Len(job.variants))
           /\ \A j \in 1..Len(job.variants) :
                 LET v == job.variants[j]
                 IN  /\ v.variant_index = j - 1
                     /\ Len(v.clips) = pl.num_prompts
                     /\ v.total_cost = CostOfClips(v.clips, Len(v.clips))
                     /\ \A k \in 1..Len(v.clips) :
                           /\ v.clips[k].clip_index = k - 1
                           /\ v.clips[k].status = "failed" => v.clips[k].cost = 0

\* a partial variant with a paid clip next to a second variant
C27_Witness ==
    /\ job.status = "completed"
    /\ Len(job.variants) = 2
    /\ job.variants[1].status = "partial"
    /\ job.variants[1].total_cost > 0
    /\ job.total_cost > job.variants[1].total_cost

(***************************************************************************)
(* C28: in one run the slot index variant_idx * N + clip_index differs for *)
(* every two clips, so no two clips write the same video file or the same  *)
(* last-frame file.                                                        *)
(***************************************************************************)
C28_SlotsAreDistinct ==
    \A i, j \in 1..Len(pl.log) :
        i < j => /\ pl.log[i].slot # pl.log[j].slot
                 /\ pl.log[j].slot = pl.log[j].variant * pl.num_prompts + pl.log[j].clip
                 /\ pl.log[i].outcome = "ok" /\ pl.log[j].outcome = "ok"
                       => pl.log[i].video_file # pl.log[j].video_file
                 /\ pl.log[i].extracted /\ pl.log[j].extracted
                       => pl.log[i].frame_file # pl.log[j].frame_file

\* two variants of two clips, all generated and all frames extracted
C28_Witness ==
    /\ pl.num_variants = 2
    /\ pl.num_prompts = 2
    /\ Len(pl.log) = 4
    /\ \A i \in 1..4 : pl.log[i].extracted /\ pl.log[i].slot = i - 1
    /\ pl.log[4].frame_file = <<"variant_", <<0, 0, 3>>, "_lastframe.png">>

(***************************************************************************)
(* C29: at most one generation is in flight: when the request for a clip   *)
(* is made, every earlier request of the run has returned and its clip has *)
(* been recorded, the extraction for the previous clip is over, and every  *)
(* earlier variant is closed with all its clips.                           *)
(***************************************************************************)
C29_OneGenerationInFlight ==
    /\ [](pl.pc = "generate"
            => /\ Len(pl.log) = pl.variant_idx * pl.num_prompts + pl.clip_pos
               /\ Len(pl.variant_clips) = pl.clip_pos
               /\ Len(pl.all_variants) = pl.variant_idx
               /\ \A v \in 1..Len(pl.all_variants) :
                     Len(pl.all_variants[v].clips) = pl.num_prompts)
    /\ [][(pl'.pc = "generate" /\ pl.pc # "generate") => pl.pc = "clip_start"]_vars
    /\ [][Len(pl'.log) > Len(pl.log)
             => (pl.pc = "generate" /\ Len(pl'.log) = Len(pl.log) + 1)]_vars

\* the request for clip 1 of the second variant
C29_Witness ==
    /\ pl.pc = "generate"
    /\ pl.variant_idx = 1
    /\ pl.clip_pos = 1
    /\ Len(pl.log) = 3
    /\ ExtractRaised(3)

(***************************************************************************)
(* C30: when every collaborator call returns, a dispatched task eventually *)
(* stops: either it has written completed, or every attempt failed and it  *)
(* stops after the first attempt and 3 retries with status failed.         *)
(***************************************************************************)
C30_PipelineStops ==
    /\ <>(pl.pc \in {"done", "dead"})
    /\ [](pl.pc = "done" => job.status = "completed")
    /\ [](pl.pc = "dead" => (job.status = "failed" /\ pl.attempt = MAX_RETRIES))
    /\ [](pl.attempt <= MAX_RETRIES)

\* the fourth attempt failed as well
C30_Witness ==
    /\ pl.pc = "dead"
    /\ pl.attempt = MAX_RETRIES
    /\ job.status = "failed"

(***************************************************************************)
(* C31: within one attempt the status of the record only moves forward     *)
(* through downloading, analyzing, generating, completed, failed being      *)
(* reachable from any of them; only the first write of a new attempt        *)
(* follows a failed record.                                                 *)
(***************************************************************************)
StatusRank(status) ==
    CASE status = "pending" -> 0
      [] status = "downloading" -> 1
      [] status = "analyzing" -> 2
      [] status = "generating" -> 3
      [] status = "completed" -> 4
      [] status = "failed" -> 5

C31_StatusMovesForward ==
    [][\/ StatusRank(job'.status) >= StatusRank(job.status)
       \/ job.status = "failed" /\ pl.pc = "w_download_start" /\ pl.attempt > 0]_vars

(***************************************************************************)
(* C32: every progress written with status generating is                   *)
(* 60 + 30 * finished / (num_variants * prompts), where finished counts the *)
(* clip records of the run, failed ones included; it lies in [60, 90); and  *)
(* after a generating write the task writes only generating, completed with *)
(* progress 100, or the failure of the handler.                             *)
(***************************************************************************)
RECURSIVE ClipsOfClosedVariants(_, _)
ClipsOfClosedVariants(vs, n) ==
    IF n = 0 THEN 0 ELSE Len(vs[n].clips) + ClipsOfClosedVariants(vs, n - 1)

FinishedClips(p) ==
    ClipsOfClosedVariants(p.all_variants, Len(p.all_variants)) + Len(p.variant_clips)

C32_GeneratingProgress ==
    /\ [][(job' # job /\ job'.status = "generating")
            => /\ job'.progress = RAdd(R(60), RDiv(R(30 * FinishedClips(pl)),
                                                   R(pl.num_variants * pl.num_prompts)))
               /\ RLe(R(60), job'.progress)
               /\ RLt(job'.progress, R(90))]_vars
    /\ [][(job' # job /\ job.status = "generating")
            => \/ job'.status = "generating"
               \/ job'.status = "completed" /\ job'.progress = R(100)
               \/ job'.status = "failed" /\ pl.pc = "except"]_vars

\* the write before the last clip of a run in which a clip has failed
C32_Witness ==
    /\ job.status = "generating"
    /\ pl.pc = "generate"
    /\ pl.num_variants = 2
    /\ pl.num_prompts = 2
    /\ job.progress = <<165, 2>>
    /\ \E i \in 1..Len(pl.log) : pl.log[i].outcome = "failed"

(***************************************************************************)
(* C33: a request with an existing start frame is submitted to the         *)
(* image-to-video endpoint, never to a text-to-video endpoint, and the      *)
(* image it carries is the start frame, not the product image.              *)
(***************************************************************************)
Submitted == gen.pc \in {"submit", "poll", "download"} \/ gen.cause \notin {"none", "unsupported_model"}

C33_StartFrameGoesToI2V ==
    (gen.start_frame /\ gen.pc # "start")
        => /\ Submitted
           /\ gen.endpoint = "kie:sora-2-image-to-video"
           /\ gen.image = "start_frame"

\* a chained clip of a defapi session that also has a product image
C33_Witness ==
    /\ gen.start_frame
    /\ gen.product_image
    /\ gen.provider = "defapi.org"
    /\ gen.pc = "poll"
    /\ gen.endpoint = "kie:sora-2-image-to-video"

(***************************************************************************)
(* C34: the duration a clip submission carries is the target_duration of   *)
(* the clip, and so is at most the maximum clip duration of the requested   *)
(* model, for every provider, model and seed.                               *)
(***************************************************************************)
C34_DurationSentIsTarget ==
    gen.pc \in {"submit", "poll", "download"}
        => /\ gen.sent_duration = <<gen.duration>>
           /\ RLe(gen.sent_duration[1], get_model_limits(gen.model).max_duration)

(***************************************************************************)
(* C35: the segments returned by calculate_segments are ordered and        *)
(* contiguous: clip_index is the list position, the first segment starts   *)
(* at 0, the last ends at video_duration, and every segment starts where    *)
(* the previous one ends, with or without scene boundaries.                 *)
(***************************************************************************)
C35_OrderedContiguous ==
    (sg.phase = "done" /\ ~sg.raised /\ Len(sg.segments) > 0)
        => /\ sg.segments[1].start_time = R(0)
           /\ sg.segments[Len(sg.segments)].end_time = R(sg.video_duration)
           /\ \A i \in 1..Len(sg.segments) :
                 /\ sg.segments[i].clip_index = i - 1
                 /\ i > 1 => sg.segments[i].start_time = sg.segments[i - 1].end_time

(***************************************************************************)
(* C36: whenever the status of the record is completed, the record carries *)
(* no top-level error, also when the completing attempt is a retry after a  *)
(* failed attempt.                                                          *)
(***************************************************************************)
C36_CompletedHasNoError == job.status = "completed" => job.error = "None"

(***************************************************************************)
(* C37: at most one run per session is queued, running or awaiting retry:  *)
(* start_generation dispatches no run while an earlier dispatched run of    *)
(* the session has not reached its final state.                             *)
(***************************************************************************)
RunLive(p) == p.pc \notin {"idle", "done", "dead"}

C37_OneRunPerSession ==
    [][(api'.second = "dispatched" /\ api.second # "dispatched") => ~RunLive(pl)]_vars

(***************************************************************************)
(* C38: the string fields written by update_job_status (status,            *)
(* current_step, error) are returned unchanged by get_session_data, also    *)
(* an exception message that begins with '[' or '{', and reading the record *)
(* never fails.                                                             *)
(***************************************************************************)
C38_StringsRoundTrip ==
    /\ ~api.read_failed
    /\ api.current_read # <<>>
          => /\ api.current_read[1].status = job.status
             /\ api.current_read[1].current_step = job.current_step
             /\ api.current_read[1].error_message = job.error

(***************************************************************************)
(* C39: a clip is generated by the provider that was requested: the        *)
(* provider recorded in the GenerationResult of a generated clip equals    *)
(* the provider passed to generate(), whether or not a start frame is      *)
(* present.                                                                 *)
(***************************************************************************)
C39_ResultProviderIsRequested ==
    (gen.pc = "returned" /\ gen.result.success) => gen.result.provider = gen.provider

(***************************************************************************)
(* C40: after delete_session has removed the record of a session it stays  *)
(* absent: no later status write of a pipeline that is still running or    *)
(* awaiting retry for the session creates a record again.                   *)
(***************************************************************************)
C40_DeletedStaysAbsent == [][~job.exists => ~job'.exists]_vars

====
